---- MODULE Spec2Model ----
(***************************************************************************)
(* Model of the LINE webhook relay of demos/app.py: the chunker            *)
(* (chunk_text), the Yelp client and reply composer (call_yelp_chat), the  *)
(* command dispatcher (handle_message) and the webhook route (callback).   *)
(*                                                                         *)
(* Text is modelled character by character.  A Python str is kept as its   *)
(* runs of equal characters: a sequence of <<c, e>>, where character c     *)
(* fills the 0-based positions from the end of the run before (0 for the   *)
(* first run) up to e, exclusive; adjacent runs hold different characters. *)
(* "aab" is << <<"a", 2>>, <<"b", 3>> >>.  The form is canonical, so       *)
(* equality of values is equality of strings, and a text of several        *)
(* thousand characters stays a short value.                                *)
(***************************************************************************)
EXTENDS Integers, Sequences, FiniteSets, TLC

NL == "\n"
QUOTE == "\""
BACKSLASH == "\\"

(***************************************************************************)
(* Python str operations                                                   *)
(***************************************************************************)

\* c * n
Rep(c, n) == IF n <= 0 THEN <<>> ELSE << <<c, n>> >>

\* len(s)
StrLen(s) == IF s = <<>> THEN 0 ELSE s[Len(s)][2]

\* The position at which run i of s starts.
RunStart(s, i) == IF i = 1 THEN 0 ELSE s[i - 1][2]

\* The elements of sequence q at the indices in I, in order.
Keep(q, I) ==
    LET nth(k) == CHOOSE i \in I : Cardinality({j \in I : j <= i}) = k
    IN [k \in 1..Cardinality(I) |-> q[nth(k)]]

\* Runs of equal characters joined: the canonical form.
Normalise(runs) ==
    Keep(runs, {i \in 1..Len(runs) : i = Len(runs) \/ runs[i][1] # runs[i + 1][1]})

\* The str of a sequence of characters (a literal).
Str(q) == Normalise([i \in 1..Len(q) |-> <<q[i], i>>])

\* a + b
Cat(a, b) ==
    IF a = <<>> THEN b
    ELSE IF b = <<>> THEN a
    ELSE LET moved == [i \in 1..Len(b) |-> <<b[i][1], b[i][2] + StrLen(a)>>]
         IN IF a[Len(a)][1] = b[1][1]
            THEN SubSeq(a, 1, Len(a) - 1) \o moved
            ELSE a \o moved

\* s[:n], n >= 0
Take(s, n) ==
    LET k == Cardinality({i \in 1..Len(s) : RunStart(s, i) < n})
    IN [i \in 1..k |-> <<s[i][1], IF s[i][2] > n THEN n ELSE s[i][2]>>]

\* s[n:], n >= 0
Drop(s, n) ==
    LET j == Cardinality({i \in 1..Len(s) : s[i][2] <= n})
    IN IF n <= 0 THEN s
       ELSE [i \in 1..(Len(s) - j) |-> <<s[i + j][1], s[i + j][2] - n>>]

\* s[i:j], 0 <= i
Slice(s, i, j) == Take(Drop(s, i), j - i)

\* s.rfind(c, start, end) for a one-character c: the highest index k with
\* start <= k < min(end, len(s)) and s[k] = c, or -1.
rfind(s, c, start, end) ==
    LET w == Take(s, end)
        hits == {k \in 1..Len(w) : w[k][1] = c}
        last == CHOOSE k \in hits : \A j \in hits : j <= k
        idx == w[last][2] - 1
    IN IF hits = {} THEN -1 ELSE IF idx < start THEN -1 ELSE idx

\* s.startswith(p)
startswith(s, p) == Take(s, StrLen(p)) = p

(***************************************************************************)
(* JSON values and json.dumps(value, indent=2, ensure_ascii=False)         *)
(*                                                                         *)
(* A decoded JSON value is [t |-> tag, v |-> payload]: null (Python None), *)
(* bool, num (v: its decimal text), str (v: a str), list (v: a sequence of *)
(* values) and obj, a dict (v: a sequence of <<key, value>> pairs in       *)
(* insertion order, keys distinct).                                        *)
(***************************************************************************)

None == [t |-> "null", v |-> 0]
JBool(b) == [t |-> "bool", v |-> b]
JNum(digits) == [t |-> "num", v |-> digits]
JStr(str) == [t |-> "str", v |-> str]
JList(items) == [t |-> "list", v |-> items]
JObj(pairs) == [t |-> "obj", v |-> pairs]

\* bool(o): Python truth value
Truthy(o) ==
    CASE o.t = "null" -> FALSE
      [] o.t = "bool" -> o.v
      [] o.t = "num" -> o.v # Str(<<"0">>)
      [] OTHER -> o.v # <<>>

\* key in d, for a dict d
HasKey(d, key) == \E i \in 1..Len(d.v) : d.v[i][1] = key

\* d[key], for a dict d holding key
Lookup(d, key) == d.v[CHOOSE i \in 1..Len(d.v) : d.v[i][1] = key][2]

\* d.get(key, default), for a dict d
Get(d, key, default) == IF HasKey(d, key) THEN Lookup(d, key) ELSE default

\* sub in str
Contains(str, sub) ==
    \E i \in 0..StrLen(str) : Slice(str, i, i + StrLen(sub)) = sub

\* The JSON escape of n copies of character c: \\ for a backslash, \n for a
\* newline, \" for a quote, the character itself otherwise.
EscapeRun(c, n) ==
    IF c = BACKSLASH THEN Rep(BACKSLASH, 2 * n)
    ELSE IF c \notin {NL, QUOTE} THEN Rep(c, n)
    ELSE Str([i \in 1..(2 * n) |->
                 IF i % 2 = 1 THEN BACKSLASH ELSE IF c = NL THEN "n" ELSE QUOTE])

RECURSIVE EscapeFrom(_, _)
EscapeFrom(str, i) ==
    IF i > Len(str) THEN <<>>
    ELSE Cat(EscapeRun(str[i][1], str[i][2] - RunStart(str, i)),
             EscapeFrom(str, i + 1))

Escape(str) == EscapeFrom(str, 1)

Indent(level) == Rep(" ", 2 * level)

\* json.dumps(o, indent=2, ensure_ascii=False), o nested level deep
RECURSIVE dumps(_, _)
RECURSIVE dumps_items(_, _, _)
dumps_items(o, level, i) ==
    LET item == IF o.t = "list"
                THEN dumps(o.v[i], level)
                ELSE Cat(Cat(Cat(Rep(QUOTE, 1), Escape(o.v[i][1])),
                             Str(<<QUOTE, ":", " ">>)),
                         dumps(o.v[i][2], level))
        line == Cat(Indent(level), item)
    IN IF i = Len(o.v) THEN line
       ELSE Cat(Cat(line, Str(<<",", NL>>)), dumps_items(o, level, i + 1))
dumps(o, level) ==
    CASE o.t = "null" -> Str(<<"n", "u", "l", "l">>)
      [] o.t = "bool" -> IF o.v THEN Str(<<"t", "r", "u", "e">>)
                         ELSE Str(<<"f", "a", "l", "s", "e">>)
      [] o.t = "num" -> o.v
      [] o.t = "str" -> Cat(Cat(Rep(QUOTE, 1), Escape(o.v)), Rep(QUOTE, 1))
      [] o.t = "list" ->
            IF o.v = <<>> THEN Str(<<"[", "]">>)
            ELSE Cat(Cat(Str(<<"[", NL>>), dumps_items(o, level + 1, 1)),
                     Cat(Cat(Rep(NL, 1), Indent(level)), Rep("]", 1)))
      [] o.t = "obj" ->
            IF o.v = <<>> THEN Str(<<"{", "}">>)
            ELSE Cat(Cat(Str(<<"{", NL>>), dumps_items(o, level + 1, 1)),
                     Cat(Cat(Rep(NL, 1), Indent(level)), Rep("}", 1)))

\* the reply when YELP_API_KEY is not set
NOT_CONFIGURED_TEXT ==
    Str(<<"Y", "e", "l", "p", " ", "A", "P", "I", " ", "k", "e", "y", " ", "i", "s", " ", "n",
          "o", "t", " ", "c", "o", "n", "f", "i", "g", "u", "r", "e", "d", ".", NL, NL, "P", "l",
          "e", "a", "s", "e", " ", "s", "e", "t", " ", "Y", "E", "L", "P", "_", "A", "P", "I",
          "_", "K", "E", "Y", " ", "i", "n", " ", "y", "o", "u", "r", " ", ".", "e", "n", "v",
          " ", "f", "i", "l", "e", ".">>)

\* f"Error calling Yelp API: {e}"
ERROR_CALLING_PREFIX ==
    Str(<<"E", "r", "r", "o", "r", " ", "c", "a", "l", "l", "i", "n", "g", " ", "Y", "e", "l",
          "p", " ", "A", "P", "I", ":", " ">>)

\* f"Yelp API error {resp.status_code}:\n{text}", up to the status code
API_ERROR_PREFIX ==
    Str(<<"Y", "e", "l", "p", " ", "A", "P", "I", " ", "e", "r", "r", "o", "r", " ">>)

\* and between the status code and the text
API_ERROR_SEP == Str(<<":", NL>>)

\* the mark that ends a cut error text
TRUNCATED_ERROR ==
    Str(<<NL, ".", ".", ".", "(", "t", "r", "u", "n", "c", "a", "t", "e", "d", ")", ".", ".",
          ".">>)

\* the mark that ends a cut undecodable body
TRUNCATED_RAW ==
    Str(<<NL, NL, ".", ".", ".", "(", "t", "r", "u", "n", "c", "a", "t", "e", "d", ")", ".", ".",
          ".">>)

\* base_text when the document gives none
DEFAULT_BASE_TEXT ==
    Str(<<"Y", "e", "l", "p", " ", "r", "e", "t", "u", "r", "n", "e", "d", " ", "a", " ", "r",
          "e", "s", "p", "o", "n", "s", "e", ".">>)

\* what the lead message adds to base_text
LEAD_SUFFIX ==
    Str(<<NL, NL, "(", "F", "u", "l", "l", " ", "r", "a", "w", " ", "Y", "e", "l", "p", " ", "J",
          "S", "O", "N", " ", "l", "o", "g", "g", "e", "d", " ", "t", "o", " ", "y", "e", "l",
          "p", ".", "l", "o", "g", ".", " ", "S", "h", "o", "w", "i", "n", "g", " ", "f", "i",
          "r", "s", "t", " ", "b", "u", "s", "i", "n", "e", "s", "s", " ", "d", "e", "t", "a",
          "i", "l", "s", " ", "b", "e", "l", "o", "w", ".", ")">>)

\* the label before the first business chunk
FIRST_BUSINESS_LABEL ==
    Str(<<"F", "i", "r", "s", "t", " ", "b", "u", "s", "i", "n", "e", "s", "s", " ", "(", "f",
          "u", "l", "l", " ", "J", "S", "O", "N", ")", ":", NL, NL>>)

\* the mark that ends a cut fallback preview
TRUNCATED_PREVIEW ==
    Str(<<NL, NL, ".", ".", ".", "(", "t", "r", "u", "n", "c", "a", "t", "e", "d", " ", "J", "S",
          "O", "N", " ", "p", "r", "e", "v", "i", "e", "w", ")", ".", ".", ".">>)

\* the start of the fallback message
NO_BUSINESSES_PREFIX ==
    Str(<<"N", "o", " ", "b", "u", "s", "i", "n", "e", "s", "s", "e", "s", " ", "f", "o", "u",
          "n", "d", " ", "i", "n", " ", "e", "n", "t", "i", "t", "i", "e", "s", ".", NL, NL>>)

\* the reply to /yelp without a question
USAGE_TEXT ==
    Str(<<"U", "s", "a", "g", "e", ":", " ", "/", "y", "e", "l", "p", " ", "<", "y", "o", "u",
          "r", " ", "q", "u", "e", "s", "t", "i", "o", "n", ">", NL, "E", "x", "a", "m", "p",
          "l", "e", ":", " ", "/", "y", "e", "l", "p", " ", "B", "e", "s", "t", " ", "r", "a",
          "m", "e", "n", " ", "n", "e", "a", "r", " ", "m", "e">>)

\* the reply to help
HELP_TEXT ==
    Str(<<"C", "o", "m", "m", "a", "n", "d", "s", ":", NL, "-", " ", "h", "e", "l", "p", ":",
          " ", "s", "h", "o", "w", " ", "t", "h", "i", "s", " ", "h", "e", "l", "p", NL, "-",
          " ", "p", "i", "n", "g", ":", " ", "t", "e", "s", "t", " ", "l", "a", "t", "e", "n",
          "c", "y", NL, "-", " ", "e", "c", "h", "o", " ", "<", "t", "e", "x", "t", ">", ":",
          " ", "I", "'", "l", "l", " ", "r", "e", "p", "e", "a", "t", " ", "y", "o", "u", "r",
          " ", "t", "e", "x", "t", NL, "-", " ", "/", "y", "e", "l", "p", " ", "<", "q", "u",
          "e", "r", "y", ">", ":", " ", "a", "s", "k", " ", "Y", "e", "l", "p", " ", "A", "I",
          " ", "(", "e", ".", "g", ".", " ", "/", "y", "e", "l", "p", " ", "g", "o", "o", "d",
          " ", "v", "e", "g", "a", "n", " ", "s", "u", "s", "h", "i", " ", "i", "n", " ", "S",
          "F", ")">>)

\* the keyword "/yelp"
KW_YELP == Str(<<"/", "y", "e", "l", "p">>)

\* the keyword "help"
KW_HELP == Str(<<"h", "e", "l", "p">>)

\* the keyword "ping"
KW_PING == Str(<<"p", "i", "n", "g">>)

\* the keyword "echo "
KW_ECHO == Str(<<"e", "c", "h", "o", " ">>)

\* the key "response"
K_RESPONSE == Str(<<"r", "e", "s", "p", "o", "n", "s", "e">>)

\* the key "text"
K_TEXT == Str(<<"t", "e", "x", "t">>)

\* the key "entities"
K_ENTITIES == Str(<<"e", "n", "t", "i", "t", "i", "e", "s">>)

\* the key "businesses"
K_BUSINESSES == Str(<<"b", "u", "s", "i", "n", "e", "s", "s", "e", "s">>)

\* the key "query"
K_QUERY == Str(<<"q", "u", "e", "r", "y">>)

\* the key "user_context"
K_USER_CONTEXT == Str(<<"u", "s", "e", "r", "_", "c", "o", "n", "t", "e", "x", "t">>)

\* the key "locale"
K_LOCALE == Str(<<"l", "o", "c", "a", "l", "e">>)

\* the key "latitude"
K_LATITUDE == Str(<<"l", "a", "t", "i", "t", "u", "d", "e">>)

\* the key "longitude"
K_LONGITUDE == Str(<<"l", "o", "n", "g", "i", "t", "u", "d", "e">>)
\* "pong " and the four characters that follow it in the source file
PONG_TEXT ==
    Str(<<"p", "o", "n", "g", " ", "U+F8FF", "U+00FC", "U+00E8", "U+00EC">>)

(***************************************************************************)
(* More str operations: strip, lower, float                                *)
(***************************************************************************)

Whitespace == {" ", NL, "\t", "\r"}

\* s.strip()
strip(str) ==
    LET inked == {i \in 1..Len(str) : str[i][1] \notin Whitespace}
        first == CHOOSE i \in inked : \A j \in inked : i <= j
        last == CHOOSE i \in inked : \A j \in inked : j <= i
    IN IF inked = {} THEN <<>>
       ELSE Slice(str, RunStart(str, first), str[last][2])

UPPERCASE ==
    <<"A", "B", "C", "D", "E", "F", "G", "H", "I", "J", "K", "L", "M",
      "N", "O", "P", "Q", "R", "S", "T", "U", "V", "W", "X", "Y", "Z">>
LOWERCASE ==
    <<"a", "b", "c", "d", "e", "f", "g", "h", "i", "j", "k", "l", "m",
      "n", "o", "p", "q", "r", "s", "t", "u", "v", "w", "x", "y", "z">>

LowerChar(c) ==
    IF \E i \in 1..26 : UPPERCASE[i] = c
    THEN LOWERCASE[CHOOSE i \in 1..26 : UPPERCASE[i] = c]
    ELSE c

\* s.lower()
lower(str) == Normalise([i \in 1..Len(str) |-> <<LowerChar(str[i][1]), str[i][2]>>])

Digits == {"0", "1", "2", "3", "4", "5", "6", "7", "8", "9"}

\* Whether float(str) returns, rather than raising ValueError: an optional
\* sign, then digits with at most one point among them.  (Python's float
\* also takes an exponent, surrounding blanks, "inf" and "nan"; none of
\* them is among the values the environment holds here.)
FloatParses(str) ==
    LET body == IF str # <<>> /\ str[1][1] \in {"-", "+"} /\ str[1][2] = 1
                THEN Drop(str, 1) ELSE str
        points == {i \in 1..Len(body) : body[i][1] = "."}
    IN /\ \A i \in 1..Len(body) : body[i][1] \in Digits \cup {"."}
       /\ \E i \in 1..Len(body) : body[i][1] \in Digits
       /\ Cardinality(points) <= 1
       /\ \A i \in points : body[i][2] - RunStart(body, i) = 1

(***************************************************************************)
(* Limits the program sets                                                 *)
(***************************************************************************)

\* chunk_text(biz_json, max_len=3500)
BIZ_MAX_LEN == 3500
\* messages.extend(biz_chunks[:4])
BIZ_CHUNK_CAP == 4
\* if len(short_pretty) > 3500: short_pretty = short_pretty[:3500] + ...
PREVIEW_CAP == 3500
\* if len(text) > 2000: text = text[:2000] + ...
ERROR_TEXT_CAP == 2000
\* if len(text) > 4000: text = text[:4000] + ...
RAW_TEXT_CAP == 4000
\* reply[:5]
REPLY_CAP == 5
\* raw_text[len("/yelp"):] and raw_text[5:]
KEYWORD_LEN == 5

(***************************************************************************)
(* Bounds of the model                                                     *)
(***************************************************************************)

\* chunk_text on its own: texts of up to MaxTextLen characters over
\* Alphabet, max_len in 1..MaxMaxLen.
MaxTextLen == 6
MaxMaxLen == 3
\* The while loop of chunk_text is followed for at most MaxChunks chunks.
MaxChunks == 9
\* A search document lists up to MaxEntities entities.
MaxEntities == 2
\* The business of many lines: ManyFields fields of FieldLen characters.
ManyFields == 6
FieldLen == 3480
\* The business of one long line: one field of LongFieldLen characters.
LongFieldLen == 3600
\* The long summary text of a search document.
LongTextLen == 3600

Alphabet == {"a", NL}

Texts == {Str(q) : q \in UNION {[1..n -> Alphabet] : n \in 0..MaxTextLen}}

(***************************************************************************)
(* The inputs: inbound texts, configuration, search API outcomes           *)
(***************************************************************************)

InboundTexts ==
    { Str(<<"h", "e", "l", "p">>),
      Str(<<"H", "E", "L", "P">>),
      Str(<<" ", "H", "e", "l", "p", NL>>),
      Str(<<"p", "i", "n", "g">>),
      Str(<<"P", "i", "n", "g">>),
      Str(<<"e", "c", "h", "o", " ", "H", "e", "l", "l", "o", " ", "W", "o", "r", "l", "d">>),
      Str(<<"E", "C", "H", "O", " ", "H", "e", "l", "l", "o", " ", "W", "o", "r", "l", "d">>),
      Str(<<"e", "c", "h", "o", " ">>),
      Str(<<"/", "y", "e", "l", "p">>),
      Str(<<"/", "Y", "E", "L", "P">>),
      Str(<<"/", "y", "e", "l", "p", " ", "R", "a", "m", "e", "n">>),
      Str(<<"/", "Y", "E", "L", "P", " ", "R", "a", "m", "e", "n">>),
      Str(<<"x", "y", "z">>),
      <<>> }

\* os.getenv gives None for a variable that is not set.
ApiKeys == {None, JStr(Str(<<"k", "e", "y">>))}
Locales == {None, JStr(Str(<<"e", "n", "_", "U", "S">>))}
Coordinates ==
    { <<None, None>>,
      <<JStr(Str(<<"4", "0", ".", "7">>)), JStr(Str(<<"-", "7", "4", ".", "0">>))>>,
      <<JStr(Str(<<"4", "0", ".", "7">>)), JStr(Str(<<"a", "b", "c">>))>>,
      <<JStr(Str(<<"a", "b", "c">>)), JStr(Str(<<"-", "7", "4", ".", "0">>))>>,
      <<JStr(Str(<<"4", "0", ".", "7">>)), None>> }

\* str(e) of the exception requests.post raises
ErrorTexts == {Str(<<"t", "i", "m", "e", "d", " ", "o", "u", "t">>)}
\* resp.status_code of a response that is not ok, as the f-string prints it
StatusCodes == {Str(<<"4", "0", "4">>), Str(<<"5", "0", "0">>)}
\* resp.text of a response that is not ok
ErrorBodies == {Rep("e", n) : n \in {0, ERROR_TEXT_CAP, ERROR_TEXT_CAP + 1}}
\* resp.text of an ok response that is no JSON
RawBodies == {Rep("<", n) : n \in {0, RAW_TEXT_CAP, RAW_TEXT_CAP + 1}}

\* A key that a document does not hold.
Absent == [t |-> "absent", v |-> 0]

\* The dict of the pairs whose value is not Absent.
Dict(pairs) == JObj(Keep(pairs, {i \in 1..Len(pairs) : pairs[i][2] # Absent}))

FieldKey(i) == Str(<<"f", ToString(i)>>)

BizSmall ==
    JObj(<< <<Str(<<"n", "a", "m", "e">>), JStr(Str(<<"R", "a", "m", "e", "n", " ", "Y", "a">>))>>,
            <<Str(<<"r", "a", "t", "i", "n", "g">>), JNum(Str(<<"4">>))>> >>)
BizManyLines ==
    JObj([i \in 1..ManyFields |-> <<FieldKey(i), JStr(Rep("x", FieldLen))>>])
BizLongLine ==
    JObj(<< <<Str(<<"n", "a", "m", "e">>), JStr(Rep("x", LongFieldLen))>> >>)
BizOther ==
    JObj(<< <<Str(<<"n", "a", "m", "e">>), JStr(Str(<<"B", "2">>))>> >>)

\* The first element of a non-empty businesses list; null is a JSON value.
FirstBusinesses == {BizSmall, None}

\* The entities of a document: without businesses, with none, with null for
\* them, with a list of two, and null in place of an entity.
Entities ==
    { JObj(<<>>),
      JObj(<< <<K_BUSINESSES, JList(<<>>)>> >>),
      JObj(<< <<K_BUSINESSES, None>> >>),
      None }
    \cup {JObj(<< <<K_BUSINESSES, JList(<<b, BizOther>>)>> >>) : b \in FirstBusinesses}

EntityLists ==
    {Absent, None}
    \cup {JList(q) : q \in UNION {[1..n -> Entities] : n \in 0..MaxEntities}}

\* Entities met alone: the large businesses, businesses that is a dict or a
\* str, and a str in place of an entity.
LoneEntities ==
    { JObj(<< <<K_BUSINESSES, JList(<<BizManyLines>>)>> >>),
      JObj(<< <<K_BUSINESSES, JList(<<BizLongLine>>)>> >>),
      JObj(<< <<K_BUSINESSES, BizOther>> >>),
      JObj(<< <<K_BUSINESSES, JStr(Str(<<"B", "2">>))>> >>),
      JStr(Str(<<"x">>)) }

ShortText == Str(<<"T", "r", "y", " ", "R", "a", "m", "e", "n", " ", "Y", "a">>)

Responses ==
    { Absent,
      None,
      JStr(ShortText),
      JObj(<<>>),
      JObj(<< <<K_TEXT, JStr(<<>>)>> >>),
      JObj(<< <<K_TEXT, JStr(ShortText)>> >>),
      JObj(<< <<K_TEXT, JStr(Rep("t", LongTextLen))>> >>),
      JObj(<< <<K_TEXT, JNum(Str(<<"5">>))>> >>) }

ShortResponse == JObj(<< <<K_TEXT, JStr(ShortText)>> >>)

Document(response, entities) ==
    Dict(<< <<K_RESPONSE, response>>, <<K_ENTITIES, entities>> >>)

\* What resp.json() may return: any JSON value.  The documents vary the
\* response, without entities and with one small business, and vary the
\* entities under the short response.
Documents ==
    { None, JList(<<>>), JStr(ShortText) }
    \cup {Document(r, Absent) : r \in Responses}
    \cup {Document(r, JList(<<JObj(<< <<K_BUSINESSES, JList(<<BizSmall>>)>> >>)>>)) :
              r \in Responses}
    \cup {Document(ShortResponse, e) : e \in EntityLists}
    \cup {Document(ShortResponse, JList(<<e>>)) : e \in LoneEntities}

VARIABLES
    pc,             \* position of the code
    sig_ok,         \* callback: whether the X-Line-Signature of the call is valid
    event_text,     \* event.message.text of the inbound text message event
    YELP_API_KEY,   \* the module's YELP_API_KEY
    environ,        \* YELP_LOCALE, YELP_LATITUDE, YELP_LONGITUDE of the environment
    prompt,         \* handle_message: prompt, the query of call_yelp_chat
    req_body,       \* call_yelp_chat: the body posted to the search API
    data,           \* call_yelp_chat: the decoded document
    full_pretty,    \* call_yelp_chat: json.dumps of data
    messages,       \* call_yelp_chat: the messages so far
    first_business, \* call_yelp_chat: the business found
    text,           \* chunk_text: the argument text
    max_len,        \* chunk_text: the argument max_len
    s,              \* chunk_text: the remainder
    chunks,         \* chunk_text: the chunks so far
    reply,          \* handle_message: reply, a list of message texts
    exc,            \* the exception raised and not caught, "" when none
    effects,        \* what was written and sent, in order: events.log, yelp.log, replies
    http            \* the status the webhook call ended with, 0 while it runs

vars ==
    <<pc, sig_ok, event_text, YELP_API_KEY, environ, prompt, req_body, data,
      full_pretty, messages, first_business, text, max_len, s, chunks, reply,
      exc, effects, http>>

chunk_vars == <<text, max_len, s, chunks>>
input_vars == <<sig_ok, event_text, YELP_API_KEY, environ>>
yelp_vars == <<req_body, data, full_pretty, messages, first_business>>

(***************************************************************************)
(* chunk_text                                                              *)
(***************************************************************************)

\* SplitPos with the hard cut one character late.
SplitPosLate(str, maxlen) ==
    LET split_pos == rfind(str, NL, 0, maxlen)
    IN IF split_pos = -1 THEN maxlen + 1 ELSE split_pos

\* split_pos = s.rfind("\n", 0, max_len); if split_pos == -1: split_pos = max_len
SplitPos(str, maxlen) ==
    LET split_pos == rfind(str, NL, 0, maxlen)
    IN IF split_pos = -1 THEN maxlen ELSE split_pos

\* Remainder with the character at the cut left out.
RemainderPastCut(str, split_pos) == Drop(str, split_pos + 1)

\* s = s[split_pos:]
Remainder(str, split_pos) == Drop(str, split_pos)

\* One test of `while s:` and the body that follows it.
chunk_text_loop ==
    /\ pc = "chunk_text"
    /\ IF s = <<>>
       THEN /\ pc' = "chunk_return"
            /\ UNCHANGED <<s, chunks>>
       ELSE IF StrLen(s) <= max_len
       THEN /\ chunks' = Append(chunks, s)
            /\ pc' = "chunk_return"
            /\ UNCHANGED s
       ELSE /\ Len(chunks) < MaxChunks
            /\ chunks' = Append(chunks, Slice(s, 0, SplitPos(s, max_len)))
            /\ s' = Remainder(s, SplitPos(s, max_len))
            /\ pc' = "chunk_text"
    /\ UNCHANGED <<text, max_len, input_vars, prompt, yelp_vars, reply, exc,
                   effects, http>>

(***************************************************************************)
(* call_yelp_chat                                                          *)
(***************************************************************************)

\* float(x) of a str that parses: the number, written as the str.
float(x) == JNum(x.v)

\* user_context, from the three variables of the environment.  A float()
\* that raises ValueError ends the try block; what was stored stays.
UserContext(locale, lat, lon) ==
    LET with_locale == IF Truthy(locale) THEN << <<K_LOCALE, locale>> >> ELSE <<>>
    IN IF ~(Truthy(lat) /\ Truthy(lon)) THEN with_locale
       ELSE IF ~FloatParses(lat.v) THEN with_locale
       ELSE IF ~FloatParses(lon.v)
            THEN Append(with_locale, <<K_LATITUDE, float(lat)>>)
       ELSE with_locale \o << <<K_LATITUDE, float(lat)>>,
                              <<K_LONGITUDE, float(lon)>> >>

\* req_body
RequestBody(query, env) ==
    LET user_context == UserContext(env[1], env[2], env[3])
    IN IF user_context # <<>>
       THEN JObj(<< <<K_QUERY, JStr(query)>>,
                    <<K_USER_CONTEXT, JObj(user_context)>> >>)
       ELSE JObj(<< <<K_QUERY, JStr(query)>> >>)

\* text cut to cap characters and marked, when it is longer
Truncated(str, cap, mark) ==
    IF StrLen(str) > cap THEN Cat(Take(str, cap), mark) ELSE str

\* The result of an expression that may raise: the exception, or the value.
Raise(name) == [exc |-> name, value |-> None]
Return(value) == [exc |-> "", value |-> value]

\* data.get("response", {}).get("text") or "Yelp returned a response.",
\* followed by + "\n\n(Full raw Yelp JSON ...)"
LeadMessage(doc) ==
    LET response == Get(doc, K_RESPONSE, JObj(<<>>))
        base_text == IF Truthy(Get(response, K_TEXT, None))
                     THEN Get(response, K_TEXT, None)
                     ELSE JStr(DEFAULT_BASE_TEXT)
    IN IF doc.t # "obj" THEN Raise("AttributeError")
       ELSE IF response.t # "obj" THEN Raise("AttributeError")
       ELSE IF base_text.t # "str" THEN Raise("TypeError")
       ELSE Return(Cat(base_text.v, LEAD_SUFFIX))

\* The character at position k of str, 0-based.
CharAt(str, k) ==
    str[CHOOSE i \in 1..Len(str) : RunStart(str, i) <= k /\ k < str[i][2]][1]

\* What `for entity in entities` goes through.
Iterate(o) ==
    CASE o.t = "list" -> Return(o.v)
      [] o.t = "obj" -> Return([i \in 1..Len(o.v) |-> JStr(o.v[i][1])])
      [] o.t = "str" ->
            Return([k \in 1..StrLen(o.v) |-> JStr(Rep(CharAt(o.v, k - 1), 1))])
      [] OTHER -> Raise("TypeError")

\* FirstOf taking the last element of a list in place of the first.
LastOf(businesses) ==
    CASE businesses.t = "list" -> Return(businesses.v[Len(businesses.v)])
      [] businesses.t = "str" -> Return(JStr(Rep(CharAt(businesses.v, 0), 1)))
      [] businesses.t = "obj" -> Raise("KeyError")
      [] OTHER -> Raise("TypeError")

\* entity["businesses"][0], for a truthy entity["businesses"]
FirstOf(businesses) ==
    CASE businesses.t = "list" -> Return(businesses.v[1])
      [] businesses.t = "str" -> Return(JStr(Rep(CharAt(businesses.v, 0), 1)))
      [] businesses.t = "obj" -> Raise("KeyError")
      [] OTHER -> Raise("TypeError")

\* The for loop over entities, from the i-th on.
RECURSIVE ScanEntities(_, _)
ScanEntities(entities, i) ==
    IF i > Len(entities) THEN Return(None)
    ELSE LET entity == entities[i]
         IN CASE entity.t = "obj" ->
                    IF HasKey(entity, K_BUSINESSES)
                       /\ Truthy(Lookup(entity, K_BUSINESSES))
                    THEN FirstOf(Lookup(entity, K_BUSINESSES))
                    ELSE ScanEntities(entities, i + 1)
              [] entity.t = "str" ->
                    IF Contains(entity.v, K_BUSINESSES)
                    THEN Raise("TypeError")
                    ELSE ScanEntities(entities, i + 1)
              [] entity.t = "list" ->
                    IF \E j \in 1..Len(entity.v) : entity.v[j] = JStr(K_BUSINESSES)
                    THEN Raise("TypeError")
                    ELSE ScanEntities(entities, i + 1)
              [] OTHER -> Raise("TypeError")

\* first_business, of a dict doc
FirstBusiness(doc) ==
    LET entities == Iterate(Get(doc, K_ENTITIES, JList(<<>>)))
    IN IF entities.exc # "" THEN entities
       ELSE ScanEntities(entities.value, 1)

\* FallbackMessage without the cut of the preview.
FallbackMessageUncut(pretty) == Cat(NO_BUSINESSES_PREFIX, pretty)

\* "No businesses found in entities.\n\n" + short_pretty
FallbackMessage(pretty) ==
    Cat(NO_BUSINESSES_PREFIX, Truncated(pretty, PREVIEW_CAP, TRUNCATED_PREVIEW))

\* biz_chunks with the label before its first chunk
Labelled(biz_chunks) ==
    IF biz_chunks # <<>>
    THEN <<Cat(FIRST_BUSINESS_LABEL, biz_chunks[1])>> \o Tail(biz_chunks)
    ELSE biz_chunks

\* q[:n] of a list q
Head_(q, n) == SubSeq(q, 1, IF Len(q) < n THEN Len(q) ELSE n)

\* KeptChunks with one chunk more.
KeptChunksOneMore(biz_chunks) == Head_(biz_chunks, BIZ_CHUNK_CAP + 1)

\* biz_chunks[:4]
KeptChunks(biz_chunks) == Head_(biz_chunks, BIZ_CHUNK_CAP)

\* Entry: the key check, then req_body.
call_yelp_chat ==
    /\ pc = "call_yelp_chat"
    /\ IF ~Truthy(YELP_API_KEY)
       THEN /\ reply' = <<NOT_CONFIGURED_TEXT>>
            /\ pc' = "reply"
            /\ UNCHANGED req_body
       ELSE /\ req_body' = RequestBody(prompt, environ)
            /\ pc' = "post"
            /\ UNCHANGED reply
    /\ UNCHANGED <<input_vars, prompt, data, full_pretty, messages,
                   first_business, chunk_vars, exc, effects, http>>

\* requests.post raises: unreachable, timed out.
post_raises ==
    /\ pc = "post"
    /\ \E e \in ErrorTexts : reply' = <<Cat(ERROR_CALLING_PREFIX, e)>>
    /\ pc' = "reply"
    /\ UNCHANGED <<input_vars, prompt, yelp_vars, chunk_vars, exc, effects, http>>

\* The response is not ok.
post_not_ok ==
    /\ pc = "post"
    /\ \E status \in StatusCodes, body \in ErrorBodies :
          reply' = <<Cat(Cat(API_ERROR_PREFIX, status),
                         Cat(API_ERROR_SEP,
                             Truncated(body, ERROR_TEXT_CAP, TRUNCATED_ERROR)))>>
    /\ pc' = "reply"
    /\ UNCHANGED <<input_vars, prompt, yelp_vars, chunk_vars, exc, effects, http>>

\* The response is ok and resp.json() raises json.JSONDecodeError.
post_not_json ==
    /\ pc = "post"
    /\ \E body \in RawBodies :
          reply' = <<Truncated(body, RAW_TEXT_CAP, TRUNCATED_RAW)>>
    /\ pc' = "reply"
    /\ UNCHANGED <<input_vars, prompt, yelp_vars, chunk_vars, exc, effects, http>>

\* The response is ok and decodes: the document is written to yelp.log.
post_json ==
    /\ pc = "post"
    /\ \E doc \in Documents :
          LET pretty == dumps(doc, 0)
          IN /\ data' = doc
             /\ full_pretty' = pretty
             /\ effects' = Append(effects, [op |-> "yelp.log", arg |-> pretty])
    /\ pc' = "lead"
    /\ UNCHANGED <<input_vars, prompt, req_body, messages, first_business,
                   chunk_vars, reply, exc, http>>

\* messages = [base_text + ...]
lead_message ==
    /\ pc = "lead"
    /\ IF LeadMessage(data).exc # ""
       THEN /\ exc' = LeadMessage(data).exc
            /\ pc' = "raised"
            /\ UNCHANGED messages
       ELSE /\ messages' = <<LeadMessage(data).value>>
            /\ pc' = "extract"
            /\ UNCHANGED exc
    /\ UNCHANGED <<input_vars, prompt, req_body, data, full_pretty,
                   first_business, chunk_vars, reply, effects, http>>

\* The scan for the first business, then either the call of chunk_text on
\* its JSON or the fallback message and the return.
extract_first_business ==
    /\ pc = "extract"
    /\ LET found == FirstBusiness(data)
       IN IF found.exc # ""
          THEN /\ exc' = found.exc
               /\ pc' = "raised"
               /\ UNCHANGED <<first_business, messages, reply, chunk_vars>>
          ELSE IF found.value # None
          THEN /\ first_business' = found.value
               /\ text' = dumps(found.value, 0)
               /\ max_len' = BIZ_MAX_LEN
               /\ s' = dumps(found.value, 0)
               /\ chunks' = <<>>
               /\ pc' = "chunk_text"
               /\ UNCHANGED <<messages, reply, exc>>
          ELSE /\ first_business' = None
               /\ messages' = Append(messages, FallbackMessage(full_pretty))
               /\ reply' = Append(messages, FallbackMessage(full_pretty))
               /\ pc' = "reply"
               /\ UNCHANGED <<chunk_vars, exc>>
    /\ UNCHANGED <<input_vars, prompt, req_body, data, full_pretty, effects, http>>

\* chunk_text has returned biz_chunks: the label, the cap and the return.
business_messages ==
    /\ pc = "chunk_return"
    /\ messages' = messages \o KeptChunks(Labelled(chunks))
    /\ reply' = messages \o KeptChunks(Labelled(chunks))
    /\ pc' = "reply"
    /\ UNCHANGED <<input_vars, prompt, req_body, data, full_pretty,
                   first_business, chunk_vars, exc, effects, http>>

(***************************************************************************)
(* handle_message and callback                                             *)
(***************************************************************************)

\* The branch handle_message takes on the text of the event.
Classify(msg) ==
    LET raw_text == strip(msg)
        text_lower == lower(raw_text)
    IN IF startswith(raw_text, KW_YELP)
       THEN IF strip(Drop(raw_text, KEYWORD_LEN)) = <<>> THEN "usage" ELSE "forward"
       ELSE IF text_lower = KW_HELP THEN "help"
       ELSE IF text_lower = KW_PING THEN "ping"
       ELSE IF startswith(text_lower, KW_ECHO) THEN "echo"
       ELSE "ignore"

\* reply of the branches help, ping and echo
CommandReply(msg) ==
    CASE Classify(msg) = "help" -> HELP_TEXT
      [] Classify(msg) = "ping" -> PONG_TEXT
      [] Classify(msg) = "echo" -> Drop(strip(msg), KEYWORD_LEN)

LogEvent(msg) == [op |-> "events.log", arg |-> msg]
ReplyMessage(msgs) == [op |-> "reply", arg |-> msgs]

\* The signature is not valid: InvalidSignatureError, abort(400).
callback_invalid_signature ==
    /\ pc = "callback"
    /\ ~sig_ok
    /\ http' = 400
    /\ pc' = "done"
    /\ UNCHANGED <<input_vars, prompt, yelp_vars, chunk_vars, reply, exc, effects>>

\* The signature is valid and handle_message runs on the text message
\* event: the event is logged, then the branch taken.  help, ping, echo and
\* the ignored texts end here, and callback returns "OK".
handle_message ==
    /\ pc = "callback"
    /\ sig_ok
    /\ CASE Classify(event_text) = "forward" ->
              /\ prompt' = strip(Drop(strip(event_text), KEYWORD_LEN))
              /\ effects' = Append(effects, LogEvent(event_text))
              /\ pc' = "call_yelp_chat"
              /\ UNCHANGED <<reply, http>>
         [] Classify(event_text) = "usage" ->
              /\ reply' = <<USAGE_TEXT>>
              /\ effects' = Append(effects, LogEvent(event_text))
              /\ pc' = "reply"
              /\ UNCHANGED <<prompt, http>>
         [] Classify(event_text) = "ignore" ->
              /\ effects' = Append(effects, LogEvent(event_text))
              /\ http' = 200
              /\ pc' = "done"
              /\ UNCHANGED <<prompt, reply>>
         [] OTHER ->
              /\ effects' = effects \o <<LogEvent(event_text),
                                         ReplyMessage(<<CommandReply(event_text)>>)>>
              /\ http' = 200
              /\ pc' = "done"
              /\ UNCHANGED <<prompt, reply>>
    /\ UNCHANGED <<input_vars, yelp_vars, chunk_vars, exc>>

\* line_bot_api.reply_message(event.reply_token, reply[:5]) of the /yelp
\* branch, and callback returns "OK".
reply_message ==
    /\ pc = "reply"
    /\ effects' = Append(effects, ReplyMessage(Head_(reply, REPLY_CAP)))
    /\ http' = 200
    /\ pc' = "done"
    /\ UNCHANGED <<input_vars, prompt, yelp_vars, chunk_vars, reply, exc>>

\* An exception no except clause names leaves handle_message and callback:
\* the webhook call ends with status 500.
uncaught_exception ==
    /\ pc = "raised"
    /\ http' = 500
    /\ pc' = "done"
    /\ UNCHANGED <<input_vars, prompt, yelp_vars, chunk_vars, reply, exc, effects>>

(***************************************************************************)
(* Specifications                                                          *)
(***************************************************************************)

Idle ==
    /\ prompt = <<>>
    /\ req_body = None
    /\ data = None
    /\ full_pretty = <<>>
    /\ messages = <<>>
    /\ first_business = None
    /\ reply = <<>>
    /\ exc = ""
    /\ effects = <<>>
    /\ http = 0

\* One webhook call carrying one text message event.
Init ==
    /\ pc = "callback"
    /\ sig_ok \in BOOLEAN
    /\ event_text \in InboundTexts
    /\ YELP_API_KEY \in ApiKeys
    /\ environ \in {<<l, c[1], c[2]>> : l \in Locales, c \in Coordinates}
    /\ text = <<>>
    /\ max_len = BIZ_MAX_LEN
    /\ s = <<>>
    /\ chunks = <<>>
    /\ Idle

Next ==
    \/ callback_invalid_signature
    \/ handle_message
    \/ call_yelp_chat
    \/ post_raises
    \/ post_not_ok
    \/ post_not_json
    \/ post_json
    \/ lead_message
    \/ extract_first_business
    \/ chunk_text_loop
    \/ business_messages
    \/ reply_message
    \/ uncaught_exception

Spec == Init /\ [][Next]_vars

\* chunk_text called on its own, on any text and any max_len >= 1.
InitChunk ==
    /\ pc = "chunk_text"
    /\ text \in Texts
    /\ max_len \in 1..MaxMaxLen
    /\ s = text
    /\ chunks = <<>>
    /\ sig_ok = TRUE
    /\ event_text = <<>>
    /\ YELP_API_KEY = None
    /\ environ = <<None, None, None>>
    /\ Idle

NextChunk == chunk_text_loop

SpecChunk == InitChunk /\ [][NextChunk]_vars

(***************************************************************************)
(* Properties                                                              *)
(***************************************************************************)

\* chunks[from], ..., chunks[Len(chunks)] concatenated
RECURSIVE JoinedFrom(_, _)
JoinedFrom(parts, from) ==
    IF from > Len(parts) THEN <<>>
    ELSE Cat(parts[from], JoinedFrom(parts, from + 1))

Joined(parts) == JoinedFrom(parts, 1)

\* C1: every pass through the loop of chunk_text that does not leave it
\* strictly shortens the remainder s, so that the loop ends.
C1_EachIterationShortens ==
    [][(pc = "chunk_text" /\ pc' = "chunk_text") => StrLen(s') < StrLen(s)]_vars

\* C2: the chunks chunk_text returns, concatenated in order, are the text.
C2_RoundTrip == pc = "chunk_return" => Joined(chunks) = text

\* A return after a cut at a newline (a chunk shorter than max_len that is
\* not the last) and a hard cut (a chunk of max_len that is not the last).
C2_Witness ==
    /\ pc = "chunk_return"
    /\ \E i \in 1..(Len(chunks) - 1) : StrLen(chunks[i]) < max_len
    /\ \E i \in 1..(Len(chunks) - 1) : StrLen(chunks[i]) = max_len

\* C3 as stated: chunk_text returns one or more chunks, the single chunk text
\* when len(text) <= max_len, every chunk non-empty and of at most max_len.
C3_OneOrMoreChunks ==
    pc = "chunk_return" =>
        /\ Len(chunks) >= 1
        /\ StrLen(text) <= max_len => chunks = <<text>>
        /\ \A i \in 1..Len(chunks) :
              chunks[i] # <<>> /\ StrLen(chunks[i]) <= max_len

\* C3 amended: no chunk is ever longer than max_len; chunk_text returns no
\* chunk for the empty text, and for any other text one or more chunks, each
\* non-empty, the single chunk text when len(text) <= max_len.
C3_ChunksNonEmptyBounded ==
    /\ \A i \in 1..Len(chunks) : StrLen(chunks[i]) <= max_len
    /\ pc = "chunk_return" =>
          IF text = <<>> THEN chunks = <<>>
          ELSE /\ Len(chunks) >= 1
               /\ \A i \in 1..Len(chunks) : chunks[i] # <<>>
               /\ StrLen(text) <= max_len => chunks = <<text>>

\* A return of three chunks or more, one of them of max_len characters.
C3_Witness ==
    /\ pc = "chunk_return"
    /\ Len(chunks) >= 3
    /\ \E i \in 1..Len(chunks) : StrLen(chunks[i]) = max_len

\* The composer has returned its messages: the lead message was built, no
\* exception was raised, and call_yelp_chat is past its return.
ComposerReturned == pc \in {"reply", "done"} /\ messages # <<>> /\ exc = ""

\* The smaller of two numbers.
Min(a, b) == IF a < b THEN a ELSE b

\* C4: the reply sequence of the composer has at most 5 elements: the lead
\* message and either the fallback message or the first 4 chunks of the
\* business, in order and whole, the later chunks dropped.
C4_ComposerCap ==
    ComposerReturned =>
        /\ Len(reply) <= 5
        /\ first_business = None => Len(reply) = 2
        /\ first_business # None =>
              /\ Len(reply) = 1 + Min(Len(chunks), 4)
              /\ reply[2] = Cat(FIRST_BUSINESS_LABEL, chunks[1])
              /\ \A i \in 2..Min(Len(chunks), 4) : reply[i + 1] = chunks[i]

\* The call has ended with a reply for a business of more than 4 chunks.
C4_Witness ==
    /\ pc = "done"
    /\ ComposerReturned
    /\ first_business # None
    /\ Len(chunks) > 4
    /\ Len(effects[Len(effects)].arg) = 5

\* C5 as stated: every message of the composer - the lead message, each
\* business chunk, the first with its label, and the fallback message - has
\* at most 3500 characters.
C5_EveryMessageWithinCap ==
    ComposerReturned => \A i \in 1..Len(reply) : StrLen(reply[i]) <= 3500

\* C5 amended: the lead message ends with its 80-character suffix, after a
\* text of any length; the first business message has at most 3500 + 29
\* characters (chunk and label) and the later ones at most 3500; the
\* fallback message has at most 3500 + 34 + 32 characters (preview, prefix
\* and truncation mark).
C5_MessageLengths ==
    ComposerReturned =>
        /\ StrLen(reply[1]) >= 80
        /\ Drop(reply[1], StrLen(reply[1]) - 80) = LEAD_SUFFIX
        /\ first_business # None =>
              /\ StrLen(reply[2]) <= 3529
              /\ \A i \in 3..Len(reply) : StrLen(reply[i]) <= 3500
        /\ first_business = None => StrLen(reply[2]) <= 3566

\* The composer has returned a labelled first chunk of more than 3500
\* characters, after a lead message within 3500.
C5_Witness ==
    /\ ComposerReturned
    /\ first_business # None
    /\ StrLen(reply[1]) <= 3500
    /\ StrLen(reply[2]) > 3500

\* C6: a webhook call whose signature is valid ends with status 200.
C6_SignedCallEndsOK == (pc = "done" /\ sig_ok) => http = 200

\* The length of the keyword that starts the text, 0 when none does.
KeywordLength(msg) ==
    LET text_lower == lower(strip(msg))
    IN IF startswith(text_lower, KW_YELP) THEN StrLen(KW_YELP)
       ELSE IF text_lower = KW_HELP THEN StrLen(KW_HELP)
       ELSE IF text_lower = KW_PING THEN StrLen(KW_PING)
       ELSE IF startswith(text_lower, KW_ECHO) THEN StrLen(KW_ECHO)
       ELSE 0

\* Two texts that start with the same keyword and differ in nothing but the
\* letter case of the keyword.
SameButKeywordCase(a, b) ==
    LET k == KeywordLength(a)
    IN /\ k > 0
       /\ lower(Take(strip(a), k)) = lower(Take(strip(b), k))
       /\ Drop(strip(a), k) = Drop(strip(b), k)

\* C7: the branch handle_message took on the text of the event is the branch
\* it takes on every text that differs from it only in the letter case of the
\* keyword.
C7_KeywordCaseInsensitive ==
    (pc # "callback" /\ sig_ok) =>
        \A other \in InboundTexts :
            SameButKeywordCase(event_text, other) =>
                Classify(other) = Classify(event_text)

\* C8: the posted body holds user_context only when a locale is set or both
\* latitude and longitude are set and parse, and user_context never holds a
\* latitude without a longitude.
C8_UserContextComplete ==
    pc = "post" =>
        LET user_context == Get(req_body, K_USER_CONTEXT, Absent)
        IN user_context # Absent =>
              /\ \/ Truthy(environ[1])
                 \/ /\ Truthy(environ[2]) /\ Truthy(environ[3])
                    /\ FloatParses(environ[2].v) /\ FloatParses(environ[3].v)
              /\ HasKey(user_context, K_LATITUDE) => HasKey(user_context, K_LONGITUDE)

\* The scan of the entities has ended without an exception, on a document
\* whose entities are a list or absent.
ExtractionDone ==
    /\ pc \in {"chunk_text", "chunk_return", "reply", "done"}
    /\ messages # <<>>
    /\ exc = ""
    /\ Get(data, K_ENTITIES, JList(<<>>)).t = "list"

\* The entities of the document, none when the key is absent.
EntitiesOf(doc) == Get(doc, K_ENTITIES, JList(<<>>)).v

\* Entity i is a dict whose businesses is present and non-empty.
HasBusinesses(doc, i) ==
    /\ EntitiesOf(doc)[i].t = "obj"
    /\ HasKey(EntitiesOf(doc)[i], K_BUSINESSES)
    /\ Truthy(Lookup(EntitiesOf(doc)[i], K_BUSINESSES))

\* The first entity with businesses, 0 when there is none.
FirstWithBusinesses(doc) ==
    LET hits == {i \in 1..Len(EntitiesOf(doc)) : HasBusinesses(doc, i)}
    IN IF hits = {} THEN 0 ELSE CHOOSE i \in hits : \A j \in hits : i <= j

\* Element 0 of the businesses of entity i: of a list, or of a str.
ElementZero(doc, i) ==
    LET businesses == Lookup(EntitiesOf(doc)[i], K_BUSINESSES)
    IN IF businesses.t = "list" THEN businesses.v[1]
       ELSE JStr(Take(businesses.v, 1))

\* The composer has returned the lead message and the fallback message.
FallbackReturned ==
    pc \in {"reply", "done"} =>
        Len(reply) = 2 /\ startswith(reply[2], NO_BUSINESSES_PREFIX)

\* C9 as stated: no business is selected exactly when no entity has a
\* non-empty businesses.
C9_NoneExactlyWhenNoBusinesses ==
    ExtractionDone => (first_business = None <=> FirstWithBusinesses(data) = 0)

\* C9 amended: the business selected is element 0 of the businesses of the
\* first entity whose businesses is present and non-empty, the entities
\* before it skipped; none is selected exactly when there is no such entity
\* or that element is null, and then the composer returns exactly the lead
\* message and the fallback message.
C9_FirstBusinessSelected ==
    ExtractionDone =>
        LET first == FirstWithBusinesses(data)
        IN /\ first # 0 => first_business = ElementZero(data, first)
           /\ first_business = None <=>
                 (first = 0 \/ ElementZero(data, first) = None)
           /\ first_business = None => FallbackReturned

\* A business selected from the second entity or a later one, the entities
\* before it skipped.
C9_Witness ==
    /\ ExtractionDone
    /\ pc = "done"
    /\ FirstWithBusinesses(data) > 1
    /\ first_business # None

\* The replies among the effects.
Replies == {i \in 1..Len(effects) : effects[i].op = "reply"}

\* C10: a call with a valid signature has, when it ends, written the event
\* to the event log before any reply, and replied exactly once with 1 to 5
\* messages, or not at all when the text is ignored.
C10_RepliesOnce ==
    (pc = "done" /\ sig_ok) =>
        /\ Cardinality(Replies) <= 1
        /\ Classify(event_text) = "ignore" => Replies = {}
        /\ Classify(event_text) # "ignore" =>
              /\ Cardinality(Replies) = 1
              /\ \A i \in Replies : Len(effects[i].arg) \in 1..5
        /\ effects # <<>> /\ effects[1].op = "events.log"
        /\ \A i \in Replies : \E j \in 1..(i - 1) : effects[j].op = "events.log"

====
